---- MODULE Spec2Model ----
(***************************************************************************)
(* Model of the tracking core of backend/core/vision_engine.py:            *)
(* Detection, Track, EnhancedKalmanFilter (symbolically), and              *)
(* MultiObjectTracker driven frame by frame by VisionEngine.process_frame  *)
(* and VisionEngine.reset.                                                 *)
(*                                                                         *)
(* Numbers.  Box coordinates are integers.  An IoU is kept as the exact    *)
(* fraction <<inter_area, union_area>> and compared by cross               *)
(* multiplication.  A center is kept in half-pixel units, i.e. the pair    *)
(* <<x1 + x2, y1 + y2>> stands for ((x1+x2)/2, (y1+y2)/2).                 *)
(***************************************************************************)
EXTENDS Integers, Sequences, FiniteSets, TLC

\* ------------------------------------------------------------------ bounds

\* frames fed to one tracking session (between construction/reset and reset)
MaxFrames == 5
\* detections in one frame
MaxDets == 2
\* detections fed to one tracking session, all frames together
MaxSessionDets == 4

\* MultiObjectTracker(max_age, min_hits, iou_threshold): the constructor's
\* parameters, scaled down from the defaults 30 and 3 so that ageing out and
\* confirmation happen within MaxFrames frames.
max_age == 2
min_hits == 2
\* iou_threshold = 0.3 as the fraction 3/10
iou_threshold_num == 3
iou_threshold_den == 10

\* The boxes the detector can report, (x1, y1, x2, y2).  Pairwise IoU:
\*   same box 1;  0-5: 8/18;  5-9: 9/17;  0-9: 4/22 (below 0.3);
\*   9-16: 6/20 (exactly 0.3);  5-16: 2/24;  0-16: disjoint.
Boxes ==
    { <<0, 0, 13, 2>>, <<5, 0, 18, 2>>, <<9, 0, 22, 2>>, <<16, 0, 29, 2>> }

\* ------------------------------------------------------------------ helpers

Max(a, b) == IF a >= b THEN a ELSE b

Min(a, b) == IF a <= b THEN a ELSE b

\* fractions <<n, d>> with d > 0
RatGeq(r, s) == r[1] * s[2] >= s[1] * r[2]

RatGt(r, s) == r[1] * s[2] > s[1] * r[2]

RatAdd(r, s) == << r[1] * s[2] + s[1] * r[2], r[2] * s[2] >>

iou_threshold == << iou_threshold_num, iou_threshold_den >>

RECURSIVE SortedIds(_)
\* the keys of a dict in iteration order: insertion order, which is ascending
\* id order because ids are issued in ascending order
SortedIds(S) ==
    IF S = {} THEN << >>
    ELSE LET m == CHOOSE x \in S : \A y \in S : x <= y
         IN  << m >> \o SortedIds(S \ {m})

RECURSIVE SumLen(_)
SumLen(fs) == IF fs = << >> THEN 0 ELSE Len(Head(fs)) + SumLen(Tail(fs))

\* ------------------------------------------------------------------ Detection

Detection(b) == [ bbox |-> b, class_id |-> 2, class_name |-> "car" ]

Detections == { Detection(b) : b \in Boxes }

\* Detection.center, in half-pixel units
center(det) == << det.bbox[1] + det.bbox[3], det.bbox[2] + det.bbox[4] >>

\* the non-empty detection lists of at most k detections a frame can carry
DetectionLists(k) == UNION { [1..n -> Detections] : n \in 1..Min(MaxDets, k) }

\* ------------------------------------------------------------------ Track

\* Track(track_id=...): the dataclass defaults
Track(id) ==
    [ track_id |-> id, detections |-> << >>, trajectory |-> << >>,
      age |-> 0, hits |-> 0, time_since_update |-> 0 ]

\* add_detection that forgets hits += 1
add_detection_no_hit(track, det) ==
    [ track EXCEPT !.detections = Append(@, det),
                   !.trajectory = Append(@, center(det)),
                   !.time_since_update = 0 ]

\* add_detection that forgets the trajectory point
add_detection_no_point(track, det) ==
    [ track EXCEPT !.detections = Append(@, det),
                   !.hits = @ + 1,
                   !.time_since_update = 0 ]

add_detection(track, det) ==
    [ track EXCEPT !.detections = Append(@, det),
                   !.trajectory = Append(@, center(det)),
                   !.hits = @ + 1,
                   !.time_since_update = 0 ]

\* ------------------------------------------------------------------ Kalman filter

\* The filter's numeric state (x, P) is a function of its initial state and of
\* the predict()/update(z) calls made on it; the model keeps exactly that:
\* the initial state vector and the log of calls.
EnhancedKalmanFilter(initial_state) ==
    [ x0 |-> << initial_state[1], initial_state[2], 0, 0, 0, 0 >>, log |-> << >> ]

kf_predict(kf) == [ kf EXCEPT !.log = Append(@, [ op |-> "predict", z |-> << >> ]) ]

kf_update(kf, measurement) ==
    [ kf EXCEPT !.log = Append(@, [ op |-> "update", z |-> measurement ]) ]

\* ------------------------------------------------------------------ MultiObjectTracker

\* MultiObjectTracker.__init__; issued is the history of the ids handed out by
\* _create_track in this session, oldest first
MultiObjectTracker ==
    [ tracks |-> << >>, kalman_filters |-> << >>, next_id |-> 1,
      frame_count |-> 0, issued |-> << >> ]

_iou(bbox1, bbox2) ==
    LET x1 == Max(bbox1[1], bbox2[1])
        y1 == Max(bbox1[2], bbox2[2])
        x2 == Min(bbox1[3], bbox2[3])
        y2 == Min(bbox1[4], bbox2[4])
        inter_area == Max(0, x2 - x1) * Max(0, y2 - y1)
        area1 == (bbox1[3] - bbox1[1]) * (bbox1[4] - bbox1[2])
        area2 == (bbox2[3] - bbox2[1]) * (bbox2[4] - bbox2[2])
        union_area == area1 + area2 - inter_area
    IN  IF union_area > 0 THEN << inter_area, union_area >> ELSE << 0, 1 >>

\* the box a track is compared by: its last stored detection's
last_bbox(track) == track.detections[Len(track.detections)].bbox

\* iou_matrix[i][j] for detection i and the j-th track of the list ids
_compute_iou_matrix(self, detections, ids) ==
    [ i \in 1..Len(detections) |->
        [ j \in 1..Len(ids) |->
            IF self.tracks[ids[j]].detections # << >>
            THEN _iou(detections[i].bbox, last_bbox(self.tracks[ids[j]]))
            ELSE << 0, 1 >> ] ]

\* the ids of [t for t in self.tracks.values() if t.time_since_update < self.max_age]
active_tracks(self) ==
    SelectSeq(SortedIds(DOMAIN self.tracks),
              LAMBDA id : self.tracks[id].time_since_update < max_age)

\* _create_track that forgets next_id += 1
_create_track_same_id(self, detection) ==
    LET track == add_detection(Track(self.next_id), detection)
        kf == EnhancedKalmanFilter(center(detection))
    IN  [ self EXCEPT
            !.kalman_filters = (self.next_id :> kf) @@ @,
            !.tracks = (self.next_id :> track) @@ @,
            !.issued = Append(@, self.next_id) ]

\* _create_track that leaves the new filter at the origin
_create_track_zero_filter(self, detection) ==
    LET track == add_detection(Track(self.next_id), detection)
        kf == EnhancedKalmanFilter(<< 0, 0 >>)
    IN  [ self EXCEPT
            !.kalman_filters = (self.next_id :> kf) @@ @,
            !.tracks = (self.next_id :> track) @@ @,
            !.issued = Append(@, self.next_id),
            !.next_id = @ + 1 ]

_create_track(self, detection) ==
    LET track == add_detection(Track(self.next_id), detection)
        kf == EnhancedKalmanFilter(center(detection))
    IN  [ self EXCEPT
            !.kalman_filters = (self.next_id :> kf) @@ @,
            !.tracks = (self.next_id :> track) @@ @,
            !.issued = Append(@, self.next_id),
            !.next_id = @ + 1 ]

\* _remove_old_tracks that deletes the tracks and leaves their filters
_remove_old_tracks_keep_filters(self) ==
    LET to_remove == { id \in DOMAIN self.tracks :
                         self.tracks[id].time_since_update > max_age }
    IN  [ self EXCEPT
            !.tracks = [ id \in DOMAIN self.tracks \ to_remove |-> self.tracks[id] ] ]

_remove_old_tracks(self) ==
    LET to_remove == { id \in DOMAIN self.tracks :
                         self.tracks[id].time_since_update > max_age }
    IN  [ self EXCEPT
            !.tracks = [ id \in DOMAIN self.tracks \ to_remove |-> self.tracks[id] ],
            !.kalman_filters =
                [ id \in DOMAIN self.kalman_filters \ to_remove |->
                    self.kalman_filters[id] ] ]

\* begin_update that forgets the predict() loop
begin_update_no_predict(self) == [ self EXCEPT !.frame_count = @ + 1 ]

\* lines 210-214: count the frame, predict() on every filter
begin_update(self) ==
    [ self EXCEPT
        !.frame_count = @ + 1,
        !.kalman_filters =
            [ id \in DOMAIN self.kalman_filters |-> kf_predict(self.kalman_filters[id]) ] ]

\* a matched pair: track.add_detection(det); track.age += 1; the filter's update
match_track(self, id, det) ==
    [ self EXCEPT
        !.tracks[id] = [ add_detection(@, det) EXCEPT !.age = @ + 1 ],
        !.kalman_filters =
            IF id \in DOMAIN self.kalman_filters
            THEN [ self.kalman_filters EXCEPT ![id] = kf_update(@, center(det)) ]
            ELSE self.kalman_filters ]

\* the no-detections return that ages nothing
update_no_detections_no_ageing(self) == self

\* lines 219-223: no detections
update_no_detections(self) ==
    [ self EXCEPT
        !.tracks = [ id \in DOMAIN self.tracks |->
                       [ self.tracks[id] EXCEPT !.time_since_update = @ + 1 ] ] ]

\* the creation loop that creates nothing
create_tracks_none(self, detections, skip, i) == self

RECURSIVE create_tracks(_, _, _, _)
\* for i, det in enumerate(detections): if i not in skip: self._create_track(det)
create_tracks(self, detections, skip, i) ==
    IF i > Len(detections) THEN self
    ELSE create_tracks(IF i \in skip THEN self ELSE _create_track(self, detections[i]),
                       detections, skip, i + 1)

\* lines 225-229: no active tracks
update_no_active_tracks(self, detections) == create_tracks(self, detections, {}, 1)

\* ---- optimal-assignment path, lines 234-266

\* cost_matrix that takes the IoU itself as the cost
cost_matrix_iou(iou_matrix) == iou_matrix

\* cost_matrix = 1 - iou_matrix
cost_matrix(iou_matrix) ==
    [ i \in DOMAIN iou_matrix |->
        [ j \in DOMAIN iou_matrix[i] |->
            << iou_matrix[i][j][2] - iou_matrix[i][j][1], iou_matrix[i][j][2] >> ] ]

\* the one-to-one assignments of n rows to m columns that pair min(n, m) of
\* them, each a set of <<row, col>>
Assignments(n, m) ==
    IF n <= m
    THEN { { << i, f[i] >> : i \in 1..n } :
             f \in { g \in [1..n -> 1..m] : \A a, b \in 1..n : a # b => g[a] # g[b] } }
    ELSE { { << f[j], j >> : j \in 1..m } :
             f \in { g \in [1..m -> 1..n] : \A a, b \in 1..m : a # b => g[a] # g[b] } }

RECURSIVE TotalCost(_, _)
TotalCost(cost, A) ==
    IF A = {} THEN << 0, 1 >>
    ELSE LET p == CHOOSE q \in A : TRUE
         IN  RatAdd(cost[p[1]][p[2]], TotalCost(cost, A \ {p}))

\* scipy.optimize.linear_sum_assignment(cost): the assignments of minimum
\* total cost; which of several optima the solver returns is not fixed here
linear_sum_assignment(cost, n, m) ==
    { A \in Assignments(n, m) :
        \A B \in Assignments(n, m) : RatGeq(TotalCost(cost, B), TotalCost(cost, A)) }

RECURSIVE match_pairs(_, _, _, _)
\* lines 242-256: the accepted pairs, in row order
match_pairs(self, detections, ids, pairs) ==
    IF pairs = {} THEN self
    ELSE LET p == CHOOSE q \in pairs : \A r \in pairs : q[1] <= r[1]
         IN  match_pairs(match_track(self, ids[p[2]], detections[p[1]]),
                         detections, ids, pairs \ {p})

\* lines 263-266: time_since_update += 1 for the active tracks left unmatched
age_unmatched(self, ids, matched_tracks) ==
    LET unmatched == { ids[j] : j \in (1..Len(ids)) \ matched_tracks }
    IN  [ self EXCEPT
            !.tracks = [ id \in DOMAIN self.tracks |->
                           IF id \in unmatched
                           THEN [ self.tracks[id] EXCEPT !.time_since_update = @ + 1 ]
                           ELSE self.tracks[id] ] ]

\* accepted_pairs without the threshold test of line 243
accepted_pairs_unchecked(iou_matrix, A) == A

\* line 243: the pairs of the solver's answer A that pass the threshold
accepted_pairs(iou_matrix, A) ==
    { p \in A : RatGeq(iou_matrix[p[1]][p[2]], iou_threshold) }

\* the optimal-assignment path for the solver's answer A
update_hungarian(self, detections, A) ==
    LET ids == active_tracks(self)
        iou_matrix == _compute_iou_matrix(self, detections, ids)
        accepted == accepted_pairs(iou_matrix, A)
        matched_detections == { p[1] : p \in accepted }
        matched_tracks == { p[2] : p \in accepted }
        s1 == match_pairs(self, detections, ids, accepted)
        s2 == create_tracks(s1, detections, matched_detections, 1)
        s3 == age_unmatched(s2, ids, matched_tracks)
    IN  _remove_old_tracks(s3)

\* ---- greedy fallback path, lines 267-286

RECURSIVE best_track(_, _, _, _, _, _)
\* lines 270-278: the scan of active_tracks; best is 0 for None
best_track(self, det, ids, j, best, best_iou) ==
    IF j > Len(ids) THEN best
    ELSE LET track == self.tracks[ids[j]]
             iou == _iou(det.bbox, last_bbox(track))
         IN  IF track.detections # << >> /\ RatGt(iou, best_iou)
             THEN best_track(self, det, ids, j + 1, ids[j], iou)
             ELSE best_track(self, det, ids, j + 1, best, best_iou)

RECURSIVE greedy_loop(_, _, _, _)
greedy_loop(self, detections, ids, i) ==
    IF i > Len(detections) THEN self
    ELSE LET det == detections[i]
             best == best_track(self, det, ids, 1, 0, iou_threshold)
         IN  greedy_loop(IF best # 0 THEN match_track(self, best, det)
                                     ELSE _create_track(self, det),
                         detections, ids, i + 1)

update_greedy(self, detections) ==
    _remove_old_tracks(greedy_loop(self, detections, active_tracks(self), 1))

\* reset that forgets next_id = 1
tracker_reset_keep_next_id(self) ==
    [ self EXCEPT !.tracks = << >>, !.kalman_filters = << >>,
                  !.frame_count = 0, !.issued = << >> ]

\* MultiObjectTracker.reset
tracker_reset(self) ==
    [ self EXCEPT !.tracks = << >>, !.kalman_filters = << >>, !.next_id = 1,
                  !.frame_count = 0, !.issued = << >> ]

\* get_confirmed_tracks without the time_since_update test
get_confirmed_tracks_by_hits(self) ==
    { id \in DOMAIN self.tracks : self.tracks[id].hits >= min_hits }

get_confirmed_tracks(self) ==
    { id \in DOMAIN self.tracks :
        self.tracks[id].hits >= min_hits /\ self.tracks[id].time_since_update = 0 }

\* ------------------------------------------------------------------ vision service tracker
\* services/vision_service.py, MultiObjectTracker

\* __init__ (lines 141-146)
svc_MultiObjectTracker == [ trackers |-> << >>, next_id |-> 0 ]

\* _compute_iou (lines 198-204)
svc_compute_iou(b1, b2) ==
    LET x1 == Max(b1[1], b2[1])
        y1 == Max(b1[2], b2[2])
        x2 == Min(b1[3], b2[3])
        y2 == Min(b1[4], b2[4])
        inter == (x2 - x1) * (y2 - y1)
        area1 == (b1[3] - b1[1]) * (b1[4] - b1[2])
        area2 == (b2[3] - b2[1]) * (b2[4] - b2[2])
    IN  IF x2 <= x1 \/ y2 <= y1 THEN << 0, 1 >>
        ELSE << inter, area1 + area2 - inter >>

\* _create_tracker (lines 189-196)
svc_create_tracker(self, detection) ==
    [ self EXCEPT
        !.trackers = Append(@, [ id |-> self.next_id,
                                 kf |-> EnhancedKalmanFilter(center(detection)),
                                 positions |-> << center(detection) >>,
                                 velocities |-> << >>,
                                 detections |-> << detection >>,
                                 age |-> 0,
                                 total_visible_count |-> 1,
                                 consecutive_invisible_count |-> 0 ]),
        !.next_id = @ + 1 ]

\* lines 149-152: every tracker predicts and grows older
svc_predict_all(self) ==
    [ self EXCEPT
        !.trackers = [ i \in 1..Len(self.trackers) |->
                         [ self.trackers[i] EXCEPT
                             !.kf = kf_predict(@),
                             !.age = @ + 1,
                             !.consecutive_invisible_count = @ + 1 ] ] ]

\* lines 177-181: iou_matrix[i][j] for tracker i and detection j
svc_iou_matrix(self, detections) ==
    [ i \in 1..Len(self.trackers) |->
        [ j \in 1..Len(detections) |->
            IF self.trackers[i].detections # << >>
            THEN svc_compute_iou(last_bbox(self.trackers[i]), detections[j].bbox)
            ELSE << 0, 1 >> ] ]

\* _match (lines 175-187): the sets of matched <<tracker index, detection
\* index>> the solver's answers lead to
svc_match(self, detections) ==
    IF self.trackers = << >> \/ detections = << >> THEN { {} }
    ELSE LET iou_matrix == svc_iou_matrix(self, detections)
         IN  { { p \in A : RatGeq(iou_matrix[p[1]][p[2]], iou_threshold) } :
                 A \in linear_sum_assignment(cost_matrix(iou_matrix),
                                             Len(self.trackers), Len(detections)) }

\* lines 157-166: a matched tracker takes the detection
svc_take(trk, det) ==
    LET positions == Append(trk.positions, center(det))
        p1 == positions[Len(positions) - 1]
        p2 == positions[Len(positions)]
    IN  [ trk EXCEPT
            !.kf = kf_update(@, center(det)),
            !.consecutive_invisible_count = 0,
            !.total_visible_count = @ + 1,
            !.positions = positions,
            !.detections = Append(@, det),
            !.velocities = IF Len(positions) > 1
                           THEN Append(@, << p2[1] - p1[1], p2[2] - p1[2] >>)
                           ELSE @ ]

\* lines 156-166 for all matched pairs
svc_apply_matched(self, detections, matched) ==
    [ self EXCEPT
        !.trackers = [ i \in 1..Len(self.trackers) |->
                         IF \E p \in matched : p[1] = i
                         THEN svc_take(self.trackers[i],
                                       detections[(CHOOSE p \in matched : p[1] = i)[2]])
                         ELSE self.trackers[i] ] ]

RECURSIVE svc_create_trackers(_, _, _, _)
\* lines 168-169: a tracker for every detection index not in matched_dets
svc_create_trackers(self, detections, matched_dets, j) ==
    IF j > Len(detections) THEN self
    ELSE svc_create_trackers(IF j \in matched_dets THEN self
                             ELSE svc_create_tracker(self, detections[j]),
                             detections, matched_dets, j + 1)

\* line 171
svc_prune(self) ==
    [ self EXCEPT
        !.trackers = SelectSeq(@, LAMBDA t : t.consecutive_invisible_count <= max_age) ]

\* line 173: the list update() returns
svc_tracked(self) ==
    LET shown == SelectSeq(self.trackers,
                           LAMBDA t : t.total_visible_count >= min_hits)
    IN  [ k \in 1..Len(shown) |->
            << shown[k].id, shown[k].detections[Len(shown[k].detections)] >> ]

\* update (lines 148-173): the tracker states it can leave behind
svc_update(self0, detections) ==
    LET self == svc_predict_all(self0)
    IN  { svc_prune(svc_create_trackers(
                        svc_apply_matched(self, detections, matched),
                        detections, { p[2] : p \in matched }, 1)) :
            matched \in svc_match(self, detections) }

\* ------------------------------------------------------------------ trajectory predictors

\* A predicted point is kept as the terms it is computed from (start point,
\* velocity, step, rotation), not as a rounded number.

\* core TrajectoryPredictor.__init__ (vision_engine.py line 342)
prediction_horizon == 90

\* an Optional argument left out
None == << >>

\* lines 363-376: the velocity predict() extrapolates with; an Optional
\* filter is None or << the filter >>
velocity(trajectory, kalman_filter) ==
    IF kalman_filter # None
    THEN [ from |-> "kalman_filter.get_velocity()", kf |-> kalman_filter[1] ]
    ELSE LET n == Min(10, Len(trajectory))
             recent == SubSeq(trajectory, Len(trajectory) - n + 1, Len(trajectory))
         IN  IF Len(recent) >= 2
             THEN [ from |-> "trajectory",
                    dx |-> recent[Len(recent)][1] - recent[1][1],
                    dy |-> recent[Len(recent)][2] - recent[1][2],
                    dt |-> Len(recent) - 1 ]
             ELSE [ from |-> "trajectory", dx |-> 0, dy |-> 0, dt |-> 1 ]

\* core TrajectoryPredictor.predict (lines 347-389)
predict(track, kalman_filter) ==
    IF Len(track.trajectory) < 3 THEN << >>
    ELSE [ t \in 1..prediction_horizon |->
             [ current |-> track.trajectory[Len(track.trajectory)],
               v |-> velocity(track.trajectory, kalman_filter),
               t |-> t,
               angle_offset |-> 0 ] ]

\* line 413, in degrees
angle_offset(i, n_modes) == (i - (n_modes \div 2)) * 15

\* core TrajectoryPredictor.predict_multimodal (lines 391-431)
predict_multimodal(track, n_modes) ==
    IF Len(track.trajectory) < 3 THEN << >>
    ELSE LET base_prediction == predict(track, None)
         IN  IF base_prediction = << >> THEN << >>
             ELSE [ m \in 1..Max(n_modes, 1) |->
                      IF m = 1 THEN base_prediction
                      ELSE [ t \in 1..Len(base_prediction) |->
                               [ base_prediction[t] EXCEPT
                                   !.angle_offset = angle_offset(m - 1, n_modes) ] ] ]

\* service TrajectoryPredictor.__init__ (vision_service.py line 208)
svc_prediction_horizon == 30

RECURSIVE SumSeq(_)
\* np.mean(..., axis=0) needs the column sums
SumSeq(vs) ==
    IF vs = << >> THEN << 0, 0 >>
    ELSE << Head(vs)[1] + SumSeq(Tail(vs))[1], Head(vs)[2] + SumSeq(Tail(vs))[2] >>

\* line 215: the mean of the last five velocities as <<sum, count>>, or (0, 0)
svc_mean_velocity(velocities) ==
    IF velocities # << >>
    THEN LET last5 == SubSeq(velocities, Max(1, Len(velocities) - 4), Len(velocities))
         IN  [ sum |-> SumSeq(last5), count |-> Len(last5) ]
    ELSE [ sum |-> << 0, 0 >>, count |-> 1 ]

\* line 213 with every weight 1.0 instead of 1.0/num_modes
svc_short_history_confs_ones(num_modes) == [ k \in 1..num_modes |-> << 1, 1 >> ]

\* line 213: [1.0/self.num_modes]*self.num_modes, as fractions
svc_short_history_confs(num_modes) == [ k \in 1..num_modes |-> << 1, num_modes >> ]

\* line 216: [0.6, 0.25, 0.15], as fractions
svc_confs == << << 60, 100 >>, << 25, 100 >>, << 15, 100 >> >>

\* line 217: [0, 0.1, -0.1], in tenths of a radian
svc_angles == << 0, 1, -1 >>

\* service TrajectoryPredictor.predict (vision_service.py lines 212-225); a
\* step s = i * 0.3 is kept in tenths
svc_predict(num_modes, positions, velocities) ==
    IF Len(positions) < 2
    THEN [ trajs |-> [ k \in 1..num_modes |-> << >> ],
           confs |-> svc_short_history_confs(num_modes) ]
    ELSE [ trajs |-> [ a \in 1..Len(svc_angles) |->
                         [ i \in 1..svc_prediction_horizon |->
                             [ last_pos |-> positions[Len(positions)],
                               v |-> svc_mean_velocity(velocities),
                               angle |-> svc_angles[a],
                               s |-> i * 3 ] ] ],
           confs |-> svc_confs ]

\* ---- the histories the predictors are applied to

\* longest detection history and largest mode count tried
MaxHistory == 3
MaxModes == 3

\* detection histories of one track, oldest first
Histories == UNION { [1..n -> Detections] : n \in 0..MaxHistory }

RECURSIVE track_of(_)
\* the core Track that received the detections of history h
track_of(h) ==
    IF h = << >> THEN Track(1)
    ELSE add_detection(track_of(SubSeq(h, 1, Len(h) - 1)), h[Len(h)])

\* the service tracker's 'positions' after the detections of history h
\* (vision_service.py lines 162, 191)
positions_of(h) == [ k \in 1..Len(h) |-> center(h[k]) ]

\* the service tracker's 'velocities' after the detections of history h
\* (lines 164-166)
velocities_of(h) ==
    [ k \in 1..(Len(h) - 1) |->
        << center(h[k + 1])[1] - center(h[k])[1],
           center(h[k + 1])[2] - center(h[k])[2] >> ]

\* ------------------------------------------------------------------ VisionEngine

VARIABLES
    SCIPY_AVAILABLE,    \* whether scipy was importable when the module loaded
    tracker,            \* vision_engine.tracker
    frames,             \* the detection lists fed to update() in this session
    confirmed_tracks,   \* process_frame's confirmed_tracks of the last frame
    metrics,            \* vision_engine.metrics (the counts)
    last_call,          \* the engine method that ran last
    sessions,           \* the process_video invocations and their frames so far
    service,            \* one stream_video call: its tracker and its last 'tracked'
    prediction          \* a predictor call: its arguments and what it returned

vars == << SCIPY_AVAILABLE, tracker, frames, confirmed_tracks, metrics, last_call,
          sessions, service, prediction >>

\* the state of the module-global vision_engine
engine == << SCIPY_AVAILABLE, tracker, frames, confirmed_tracks, metrics, last_call >>

\* what VisionEngine's own methods never touch
others == << sessions, service, prediction >>

\* no predictor has been called, for the track history h and the mode count n
no_prediction(h, n) ==
    [ history |-> h, num_modes |-> n, call |-> "none", result |-> << >> ]

\* stream_video before its first frame (lines 242-248), for one model key
new_stream ==
    [ tracker |-> svc_MultiObjectTracker, tracked |-> << >>,
      frame_id |-> 0, detection_count |-> 0 ]

\* the process_video invocations of the Vision Lab tab
Sessions == { 1, 2 }

\* no process_video invocation has started
no_sessions ==
    [ of |-> [ s \in Sessions |-> [ running |-> FALSE, frames |-> << >> ] ],
      last |-> 0 ]

initial_metrics == [ object_count |-> 0, total_detections |-> 0, track_count |-> 0 ]

Init ==
    /\ SCIPY_AVAILABLE \in BOOLEAN
    /\ tracker = MultiObjectTracker
    /\ frames = << >>
    /\ confirmed_tracks = {}
    /\ metrics = initial_metrics
    /\ last_call = "__init__"
    /\ sessions = no_sessions
    /\ service = new_stream
    /\ prediction = no_prediction(<< >>, 3)

\* MultiObjectTracker.update(detections) as a whole: the tracker states it can
\* leave behind (several only when the solver has several optima)
update(self0, detections) ==
    LET self == begin_update(self0)
        ids == active_tracks(self)
    IN  IF detections = << >> THEN { update_no_detections(self) }
        ELSE IF ids = << >> THEN { update_no_active_tracks(self, detections) }
        ELSE IF SCIPY_AVAILABLE
        THEN { update_hungarian(self, detections, A) :
                 A \in linear_sum_assignment(
                          cost_matrix(_compute_iou_matrix(self, detections, ids)),
                          Len(detections), Len(ids)) }
        ELSE { update_greedy(self, detections) }

\* the frames the model feeds are within the session's bounds
CanFeed == Len(frames) < MaxFrames

\* the non-empty detection lists the session's bounds still allow
Feedable == DetectionLists(MaxSessionDets - SumLen(frames))

\* process_frame after self.tracker.update(detections) has left the tracker as self
publish_frame(self, detections) ==
    /\ tracker' = self
    /\ frames' = Append(frames, detections)
    /\ confirmed_tracks' = get_confirmed_tracks(self)
    /\ metrics' = [ object_count |-> Cardinality(get_confirmed_tracks(self)),
                    total_detections |-> Len(detections),
                    track_count |-> Cardinality(DOMAIN self.tracks) ]
    /\ last_call' = "process_frame"
    /\ UNCHANGED SCIPY_AVAILABLE

\* process_frame called outside any modelled process_video invocation
finish_frame(self, detections) ==
    /\ publish_frame(self, detections)
    /\ UNCHANGED others

\* process_frame on a frame without detections
FrameNoDetections ==
    /\ CanFeed
    /\ finish_frame(update_no_detections(begin_update(tracker)), << >>)

\* process_frame on a frame with detections and no active track
FrameNoActiveTracks ==
    /\ CanFeed
    /\ active_tracks(tracker) = << >>
    /\ \E detections \in Feedable :
           finish_frame(update_no_active_tracks(begin_update(tracker), detections),
                        detections)

\* process_frame on the optimal-assignment path
FrameHungarian ==
    /\ CanFeed
    /\ SCIPY_AVAILABLE
    /\ active_tracks(tracker) # << >>
    /\ \E detections \in Feedable :
           LET self == begin_update(tracker)
               ids == active_tracks(self)
               cost == cost_matrix(_compute_iou_matrix(self, detections, ids))
           IN  \E A \in linear_sum_assignment(cost, Len(detections), Len(ids)) :
                   finish_frame(update_hungarian(self, detections, A), detections)

\* process_frame on the greedy fallback path
FrameGreedy ==
    /\ CanFeed
    /\ ~SCIPY_AVAILABLE
    /\ active_tracks(tracker) # << >>
    /\ \E detections \in Feedable :
           finish_frame(update_greedy(begin_update(tracker), detections), detections)

\* VisionEngine.reset
engine_reset ==
    /\ tracker' = tracker_reset(tracker)
    /\ frames' = << >>
    /\ confirmed_tracks' = {}
    /\ metrics' = initial_metrics
    /\ last_call' = "reset"
    /\ UNCHANGED SCIPY_AVAILABLE

\* reset called outside any modelled process_video invocation
Reset ==
    /\ engine_reset
    /\ UNCHANGED others

Next ==
    \/ FrameNoDetections
    \/ FrameNoActiveTracks
    \/ FrameHungarian
    \/ FrameGreedy
    \/ Reset

Spec == Init /\ [][Next]_vars


\* ------------------------------------------------------------------ a failing filter update

\* a matched pair whose kf.update(...) raises numpy.linalg.LinAlgError at
\* np.linalg.inv(S) (line 142): add_detection and age += 1 (lines 248-249,
\* 281-282) are done, the filter keeps its predicted state, and nothing after
\* the call runs
match_track_raises(self, id, det) ==
    [ self EXCEPT !.tracks[id] = [ add_detection(@, det) EXCEPT !.age = @ + 1 ] ]

\* the optimal-assignment path left at the accepted pair f: the pairs of the
\* earlier rows are done, lines 258-266 and 289 are not reached
update_hungarian_raises(self, detections, A, f) ==
    LET ids == active_tracks(self)
        iou_matrix == _compute_iou_matrix(self, detections, ids)
        before == { p \in accepted_pairs(iou_matrix, A) : p[1] < f[1] }
    IN  match_track_raises(match_pairs(self, detections, ids, before),
                           ids[f[2]], detections[f[1]])

\* the greedy path left at detection f, which found the track best
update_greedy_raises(self, detections, f, best) ==
    match_track_raises(
        greedy_loop(self, SubSeq(detections, 1, f - 1), active_tracks(self), 1),
        best, detections[f])

\* process_frame left by the exception at line 819: no metrics, no
\* confirmed-track list
raise_frame(self, detections) ==
    /\ tracker' = self
    /\ frames' = Append(frames, detections)
    /\ last_call' = "process_frame raised LinAlgError"
    /\ UNCHANGED << SCIPY_AVAILABLE, confirmed_tracks, metrics >>
    /\ UNCHANGED others

FrameHungarianRaises ==
    /\ CanFeed
    /\ SCIPY_AVAILABLE
    /\ active_tracks(tracker) # << >>
    /\ \E detections \in Feedable :
           LET self == begin_update(tracker)
               ids == active_tracks(self)
               iou_matrix == _compute_iou_matrix(self, detections, ids)
           IN  \E A \in linear_sum_assignment(cost_matrix(iou_matrix),
                                              Len(detections), Len(ids)) :
                   \E f \in accepted_pairs(iou_matrix, A) :
                       raise_frame(update_hungarian_raises(self, detections, A, f),
                                   detections)

FrameGreedyRaises ==
    /\ CanFeed
    /\ ~SCIPY_AVAILABLE
    /\ active_tracks(tracker) # << >>
    /\ \E detections \in Feedable :
           \E f \in 1..Len(detections) :
               LET self == begin_update(tracker)
                   ids == active_tracks(self)
                   before == greedy_loop(self, SubSeq(detections, 1, f - 1), ids, 1)
                   best == best_track(before, detections[f], ids, 1, 0, iou_threshold)
               IN  /\ best # 0
                   /\ raise_frame(update_greedy_raises(self, detections, f, best),
                                  detections)

NextFault == Next \/ FrameHungarianRaises \/ FrameGreedyRaises

\* the tracker with filter updates that may fail
SpecFault == Init /\ [][NextFault]_vars

\* ------------------------------------------------------------------ malformed boxes

\* boxes with x1 > x2 and with x1 = x2
MalformedBoxes == { << 18, 0, 5, 2 >>, << 5, 0, 5, 2 >> }

WellFormed(det) == det.bbox[1] < det.bbox[3] /\ det.bbox[2] < det.bbox[4]

AnyDetections == Detections \cup { Detection(b) : b \in MalformedBoxes }

\* detection lists of at most MaxDets and at most k entries, boxes of any shape
AnyDetectionLists(k) == UNION { [1..n -> AnyDetections] : n \in 0..Min(MaxDets, k) }

\* process_frame on a frame whose detector output is not validated
ProcessFrameAnyBoxes ==
    /\ CanFeed
    /\ \E detections \in AnyDetectionLists(MaxSessionDets - SumLen(frames)) :
           \E self \in update(tracker, detections) :
               finish_frame(self, detections)

NextMalformed == ProcessFrameAnyBoxes \/ Reset

SpecMalformed == Init /\ [][NextMalformed]_vars

\* ------------------------------------------------------------------ process_video sessions

\* frames one process_video invocation processes
SessionFrames == 2

\* what the detector may report for one frame of a video: at most one object
SessionDetectionLists == DetectionLists(1) \cup { << >> }

\* vision_lab_tab.process_video up to line 118: the invocation resets the
\* module-global vision_engine
StartSession(s) ==
    /\ ~sessions.of[s].running
    /\ sessions.of[s].frames = << >>
    /\ engine_reset
    /\ sessions' = [ of |-> [ sessions.of EXCEPT ![s].running = TRUE ], last |-> s ]
    /\ UNCHANGED << service, prediction >>

\* one turn of the loop of lines 145-151: the invocation passes its next
\* frame to the module-global vision_engine
SessionFrame(s) ==
    /\ sessions.of[s].running
    /\ Len(sessions.of[s].frames) < SessionFrames
    /\ \E detections \in SessionDetectionLists :
           /\ \E self \in update(tracker, detections) :
                  publish_frame(self, detections)
           /\ sessions' = [ of |-> [ sessions.of EXCEPT
                                       ![s].frames = Append(@, detections) ],
                            last |-> s ]
    /\ UNCHANGED << service, prediction >>

NextSessions ==
    \/ \E s \in Sessions : StartSession(s)
    \/ \E s \in Sessions : SessionFrame(s)

\* two process_video invocations interleaved frame by frame
SpecSessions == Init /\ [][NextSessions]_vars

\* ------------------------------------------------------------------ stream_video

\* the detection lists a stream may still feed: at most MaxDets per frame and
\* MaxSessionDets per stream
StreamDetectionLists ==
    DetectionLists(MaxSessionDets - service.detection_count) \cup { << >> }

\* one turn of the loop of lines 250-291 for one model key: the tracker is
\* updated with the frame's detections and the returned list goes to 'tracked'
StreamFrame ==
    /\ service.frame_id < MaxFrames
    /\ \E detections \in StreamDetectionLists :
           \E self \in svc_update(service.tracker, detections) :
               service' = [ tracker |-> self,
                            tracked |-> svc_tracked(self),
                            frame_id |-> service.frame_id + 1,
                            detection_count |-> service.detection_count
                                                  + Len(detections) ]
    /\ UNCHANGED << engine, sessions, prediction >>

\* a new call of stream_video builds new engines (lines 242-246)
StartStream ==
    /\ service.frame_id > 0
    /\ service' = new_stream
    /\ UNCHANGED << engine, sessions, prediction >>

NextService == StreamFrame \/ StartStream

SpecService == Init /\ [][NextService]_vars

\* ------------------------------------------------------------------ predictor calls

\* the engine as constructed; the predictors are given any track history and
\* any configured mode count
InitPredict ==
    /\ SCIPY_AVAILABLE \in BOOLEAN
    /\ tracker = MultiObjectTracker
    /\ frames = << >>
    /\ confirmed_tracks = {}
    /\ metrics = initial_metrics
    /\ last_call = "__init__"
    /\ sessions = no_sessions
    /\ service = new_stream
    /\ \E h \in Histories : \E n \in 1..MaxModes : prediction = no_prediction(h, n)

\* TrajectoryPredictor(num_modes=n).predict(positions, velocities) of the
\* vision service
ServicePredict ==
    /\ prediction' = [ prediction EXCEPT
                         !.call = "service.predict",
                         !.result = svc_predict(prediction.num_modes,
                                                positions_of(prediction.history),
                                                velocities_of(prediction.history)) ]
    /\ UNCHANGED << engine, sessions, service >>

\* core TrajectoryPredictor.predict(track, kalman_filter), with or without a
\* filter
CorePredict ==
    /\ \E kalman_filter \in
           { None, << EnhancedKalmanFilter(center(Detection(<< 0, 0, 13, 2 >>))) >> } :
           prediction' = [ prediction EXCEPT
                             !.call = "core.predict",
                             !.result = predict(track_of(prediction.history),
                                                kalman_filter) ]
    /\ UNCHANGED << engine, sessions, service >>

\* core TrajectoryPredictor.predict_multimodal(track, n_modes)
CorePredictMultimodal ==
    /\ prediction' = [ prediction EXCEPT
                         !.call = "core.predict_multimodal",
                         !.result = predict_multimodal(track_of(prediction.history),
                                                       prediction.num_modes) ]
    /\ UNCHANGED << engine, sessions, service >>

NextPredict == ServicePredict \/ CorePredict \/ CorePredictMultimodal

SpecPredict == InitPredict /\ [][NextPredict]_vars

\* ------------------------------------------------------------------ properties

\* the detections used by the scenarios below
D0 == Detection(<< 0, 0, 13, 2 >>)

D5 == Detection(<< 5, 0, 18, 2 >>)

D9 == Detection(<< 9, 0, 22, 2 >>)

D16 == Detection(<< 16, 0, 29, 2 >>)

\* a step of process_frame (not reset, not stuttering)
IsFrameStep == Len(frames') = Len(frames) + 1

\* the detections of the frame a process_frame step fed
fed == frames'[Len(frames')]

\* the live tracks that are still live after the step
Surviving == DOMAIN tracker.tracks \cap DOMAIN tracker'.tracks

RECURSIVE TrailingEmpty(_)
\* how many frames at the end of fs carried no detection
TrailingEmpty(fs) ==
    IF fs = << >> \/ fs[Len(fs)] # << >> THEN 0
    ELSE 1 + TrailingEmpty(SubSeq(fs, 1, Len(fs) - 1))

\* C1: across every update(), a track that received a detection in the frame
\* has time_since_update 0 afterwards, and every other track has exactly one
\* more than before, on every path and from every value.
C1_TimeSinceUpdate ==
    [][ IsFrameStep =>
          \A id \in Surviving :
              IF Len(tracker'.tracks[id].detections) > Len(tracker.tracks[id].detections)
              THEN tracker'.tracks[id].time_since_update = 0
              ELSE tracker'.tracks[id].time_since_update
                     = tracker.tracks[id].time_since_update + 1 ]_vars

\* C2: on both association paths a detection is appended to an existing track
\* only if its IoU with the box the track ended with is at least
\* iou_threshold; a detection that is not appended to a track starts a new
\* track of its own.
C2_NoMatchBelowThreshold ==
    [][ IsFrameStep =>
          /\ \A id \in Surviving :
               \A k \in (Len(tracker.tracks[id].detections) + 1)
                          .. Len(tracker'.tracks[id].detections) :
                   RatGeq(_iou(tracker'.tracks[id].detections[k].bbox,
                               tracker'.tracks[id].detections[k - 1].bbox),
                          iou_threshold)
          /\ \A i \in 1..Len(fed) :
               \/ \E id \in Surviving :
                    \E k \in (Len(tracker.tracks[id].detections) + 1)
                               .. Len(tracker'.tracks[id].detections) :
                        tracker'.tracks[id].detections[k] = fed[i]
               \/ \E id \in DOMAIN tracker'.tracks \ DOMAIN tracker.tracks :
                    tracker'.tracks[id].detections = << fed[i] >> ]_vars

\* C2 witness: the solver's only possible pair (D9 with the track at D0) has
\* IoU 4/22 < 0.3; it was rejected and D9 started track 2.
C2_Witness ==
    /\ SCIPY_AVAILABLE
    /\ frames = << << D0 >>, << D9 >> >>
    /\ DOMAIN tracker.tracks = {1, 2}
    /\ tracker.tracks[1].detections = << D0 >>
    /\ tracker.tracks[2].detections = << D9 >>

\* C3: after max_age + 1 (or more) consecutive frames without detections, a
\* track that was confirmed when the gap began is no longer in tracks.  Such a
\* track is one with hits >= min_hits whose time_since_update equals the
\* length of the gap.
C3_EvictedAfterGap ==
    TrailingEmpty(frames) >= max_age + 1 =>
        \A id \in DOMAIN tracker.tracks :
            ~ ( /\ tracker.tracks[id].hits >= min_hits
                /\ tracker.tracks[id].time_since_update = TrailingEmpty(frames) )

\* C4: the confirmed tracks process_frame got from get_confirmed_tracks() are
\* exactly the live tracks with hits >= min_hits and time_since_update = 0.
C4_ConfirmedIff ==
    /\ confirmed_tracks \subseteq DOMAIN tracker.tracks
    /\ \A id \in DOMAIN tracker.tracks :
         id \in confirmed_tracks <=>
             ( tracker.tracks[id].hits >= min_hits
               /\ tracker.tracks[id].time_since_update = 0 )
    /\ metrics.object_count = Cardinality(confirmed_tracks)

\* C4 witness: one track confirmed, another with enough hits left out because
\* it was not matched in the frame.
C4_Witness ==
    /\ last_call = "process_frame"
    /\ confirmed_tracks # {}
    /\ \E id \in DOMAIN tracker.tracks \ confirmed_tracks :
         /\ tracker.tracks[id].hits >= min_hits
         /\ tracker.tracks[id].time_since_update > 0

\* C5: a track whose time_since_update has exceeded max_age is in the output
\* of no later frame.
C5_AbsentOnceStale ==
    [][ IsFrameStep =>
          \A id \in DOMAIN tracker.tracks :
              tracker.tracks[id].time_since_update > max_age
                  => id \notin DOMAIN tracker'.tracks ]_vars

\* C6: from a fresh or reset tracker, after k >= 1 frames that each carried
\* the same single detection there is exactly one track, with id 1, hits = k
\* and a trajectory of k points, and it is among the confirmed tracks exactly
\* when k >= min_hits.
C6_SingleDetectionTrack ==
    ( /\ frames # << >>
      /\ Len(frames[1]) = 1
      /\ \A i \in 1..Len(frames) : frames[i] = frames[1] )
    => /\ DOMAIN tracker.tracks = {1}
       /\ tracker.tracks[1].track_id = 1
       /\ tracker.tracks[1].hits = Len(frames)
       /\ Len(tracker.tracks[1].trajectory) = Len(frames)
       /\ (1 \in confirmed_tracks <=> Len(frames) >= min_hits)

\* C6 witness: the detection was fed min_hits + 1 times; the track was
\* tentative after frame 1 and is confirmed now.
C6_Witness ==
    /\ Len(frames) = min_hits + 1
    /\ \A i \in 1..Len(frames) : frames[i] = << D0 >>
    /\ 1 \in confirmed_tracks
    /\ tracker.tracks[1].hits = min_hits + 1

\* C7: on the optimal-assignment path, with two detections d1, d2 and two
\* active tracks a, b: if pairing d1 with a and d2 with b has the strictly
\* larger IoU sum (the strictly smaller total cost sum(1 - IoU)) of the two
\* one-to-one pairings, and both of its pairs have IoU > iou_threshold, then d1
\* is appended to a and d2 to b, whatever the order of the detections.
C7_OptimalAssignment ==
    [][ ( IsFrameStep /\ SCIPY_AVAILABLE /\ Len(fed) = 2
          /\ Len(active_tracks(tracker)) = 2 ) =>
          \A a, b \in DOMAIN tracker.tracks :
              LET ia1 == _iou(fed[1].bbox, last_bbox(tracker.tracks[a]))
                  ib2 == _iou(fed[2].bbox, last_bbox(tracker.tracks[b]))
                  ib1 == _iou(fed[1].bbox, last_bbox(tracker.tracks[b]))
                  ia2 == _iou(fed[2].bbox, last_bbox(tracker.tracks[a]))
              IN  ( /\ a # b
                    /\ tracker.tracks[a].time_since_update < max_age
                    /\ tracker.tracks[b].time_since_update < max_age
                    /\ RatGt(RatAdd(ia1, ib2), RatAdd(ib1, ia2))
                    /\ RatGt(ia1, iou_threshold)
                    /\ RatGt(ib2, iou_threshold) )
                  => /\ a \in DOMAIN tracker'.tracks
                     /\ b \in DOMAIN tracker'.tracks
                     /\ tracker'.tracks[a].detections
                          = Append(tracker.tracks[a].detections, fed[1])
                     /\ tracker'.tracks[b].detections
                          = Append(tracker.tracks[b].detections, fed[2]) ]_vars

\* C7 witness: tracks 1 and 2 end at D0 and D9; the frame is (D5, D9).  D5
\* overlaps track 2 (9/17) more than track 1 (8/18), so matching in input order
\* would pair D5 with track 2; the optimum pairs D5 with track 1 and D9 with
\* track 2.
C7_Witness ==
    /\ SCIPY_AVAILABLE
    /\ frames = << << D0, D9 >>, << D5, D9 >> >>
    /\ tracker.tracks[1].detections = << D0, D5 >>
    /\ tracker.tracks[2].detections = << D9, D9 >>

\* C8: within a session the ids handed out are strictly increasing, so no id
\* is given twice, evicted tracks included; every live track carries the id it
\* is stored under, and that id was handed out in this session.
C8_IdsNeverReused ==
    /\ \A i, j \in 1..Len(tracker.issued) :
         i < j => tracker.issued[i] < tracker.issued[j]
    /\ \A id \in DOMAIN tracker.tracks :
         /\ tracker.tracks[id].track_id = id
         /\ \E i \in 1..Len(tracker.issued) : tracker.issued[i] = id
    /\ \A i \in 1..Len(tracker.issued) : tracker.issued[i] < tracker.next_id

\* C8 witness: a track has been evicted and a track with a later id is live.
C8_Witness ==
    \E i, j \in 1..Len(tracker.issued) :
        /\ i < j
        /\ tracker.issued[i] \notin DOMAIN tracker.tracks
        /\ tracker.issued[j] \in DOMAIN tracker.tracks

\* C9: right after reset() the tracker is in the state __init__ builds (no
\* tracks, no filters, next_id 1, frame_count 0) and the engine's outputs are
\* cleared, so what follows is what follows construction.
C9_ResetIsFresh ==
    last_call = "reset" =>
        /\ tracker = MultiObjectTracker
        /\ tracker.tracks = << >>
        /\ tracker.kalman_filters = << >>
        /\ tracker.next_id = 1
        /\ tracker.frame_count = 0
        /\ confirmed_tracks = {}
        /\ metrics = initial_metrics

\* C9 witness: reset() has run.
C9_Witness == last_call = "reset"

\* C10: every live track has as many trajectory points as detections, and
\* the i-th point is the center of the i-th detection.
C10_TrajectoryMatchesDetections ==
    \A id \in DOMAIN tracker.tracks :
        /\ Len(tracker.tracks[id].trajectory) = Len(tracker.tracks[id].detections)
        /\ \A i \in 1..Len(tracker.tracks[id].detections) :
             tracker.tracks[id].trajectory[i] = center(tracker.tracks[id].detections[i])

\* C10 witness: a track that was created from one box and matched to another.
C10_Witness ==
    \E id \in DOMAIN tracker.tracks :
        /\ Len(tracker.tracks[id].detections) >= 2
        /\ tracker.tracks[id].detections[1] # tracker.tracks[id].detections[2]

\* the entries a step appended to the log of the filter of track id
new_log(id) ==
    SubSeq(tracker'.kalman_filters[id].log,
           Len(tracker.kalman_filters[id].log) + 1,
           Len(tracker'.kalman_filters[id].log))

\* C17: in every update(), on every path, the filter of each track that was
\* live at the start is advanced by predict() exactly once, and that predict()
\* comes before every filter update() of the frame.  (Tracks evicted by the
\* frame leave no filter to look at.)
C17_PredictOncePerFrame ==
    [][ IsFrameStep =>
          \A id \in Surviving :
              /\ id \in DOMAIN tracker.kalman_filters
              /\ id \in DOMAIN tracker'.kalman_filters
              /\ tracker'.kalman_filters[id].x0 = tracker.kalman_filters[id].x0
              /\ SubSeq(tracker'.kalman_filters[id].log, 1,
                        Len(tracker.kalman_filters[id].log))
                   = tracker.kalman_filters[id].log
              /\ new_log(id) # << >>
              /\ new_log(id)[1].op = "predict"
              /\ \A k \in 2..Len(new_log(id)) : new_log(id)[k].op = "update" ]_vars

\* C17 witness: a frame with detections found no active track (early return),
\* and the filter of the stale track 1 was still predicted in each of the four
\* frames after its creation.
C17_Witness ==
    /\ DOMAIN tracker.tracks = {1, 2}
    /\ tracker.tracks[1].time_since_update = max_age
    /\ tracker.tracks[2].hits = 1
    /\ Len(frames) = max_age + 2
    /\ Len(tracker.kalman_filters[1].log) = max_age + 1
    /\ \A k \in 1..Len(tracker.kalman_filters[1].log) :
         tracker.kalman_filters[1].log[k].op = "predict"

\* C18: after every update() the live set holds no track with
\* time_since_update > max_age, and kalman_filters holds no filter of such a
\* track (no filter without a live, fresh track).
C18_NoStaleTrackAfterUpdate ==
    /\ \A id \in DOMAIN tracker.tracks :
         tracker.tracks[id].time_since_update <= max_age
    /\ DOMAIN tracker.kalman_filters \subseteq DOMAIN tracker.tracks

\* C19: a lone coasting track (time_since_update in 1..max_age) whose last box
\* overlaps the frame's only detection with IoU >= iou_threshold is matched to
\* it: same id, time_since_update back to 0, no new track.
C19_CoastingTrackAssociates ==
    [][ ( /\ IsFrameStep
          /\ Len(fed) = 1
          /\ Cardinality(DOMAIN tracker.tracks) = 1 ) =>
          \A id \in DOMAIN tracker.tracks :
              ( /\ tracker.tracks[id].time_since_update >= 1
                /\ tracker.tracks[id].time_since_update <= max_age
                /\ RatGeq(_iou(fed[1].bbox, last_bbox(tracker.tracks[id])),
                          iou_threshold) )
              => /\ DOMAIN tracker'.tracks = {id}
                 /\ tracker'.tracks[id].detections
                      = Append(tracker.tracks[id].detections, fed[1])
                 /\ tracker'.tracks[id].time_since_update = 0 ]_vars

\* C20: on the greedy fallback path a track receives at most one detection
\* per frame: its detections, trajectory and hits grow by at most 1 and its
\* filter is updated at most once.
C20_GreedyOneDetectionPerTrack ==
    [][ (IsFrameStep /\ ~SCIPY_AVAILABLE) =>
          \A id \in Surviving :
              /\ Len(tracker'.tracks[id].detections)
                   <= Len(tracker.tracks[id].detections) + 1
              /\ Len(tracker'.tracks[id].trajectory)
                   <= Len(tracker.tracks[id].trajectory) + 1
              /\ tracker'.tracks[id].hits <= tracker.tracks[id].hits + 1
              /\ Len(tracker'.kalman_filters[id].log)
                   <= Len(tracker.kalman_filters[id].log) + 2 ]_vars

\* C11: when the Kalman update of a matched track fails, update() does not
\* abort: it returns normally (process_frame completes and publishes the
\* frame's metrics) and every detection of the frame is stored in a live track
\* (matched or spawned).
C11_KalmanFailureDoesNotAbort ==
    [][ IsFrameStep =>
          /\ last_call' = "process_frame"
          /\ metrics'.total_detections = Len(fed)
          /\ \A i \in 1..Len(fed) :
                \E id \in DOMAIN tracker'.tracks :
                    \E k \in 1..Len(tracker'.tracks[id].detections) :
                        tracker'.tracks[id].detections[k] = fed[i] ]_vars

\* C12: a detection with a malformed box is rejected on its own: the frame
\* leaves the tracker as update() would on the list without the malformed
\* detections.
C12_MalformedRejected ==
    [][ IsFrameStep =>
          tracker' \in update(tracker, SelectSeq(fed, WellFormed)) ]_vars

RECURSIVE RunAlone(_)
\* the tracker states a session has after feeding the frames fs to an engine
\* of its own, freshly reset
RunAlone(fs) ==
    IF fs = << >> THEN { MultiObjectTracker }
    ELSE UNION { update(t, fs[Len(fs)]) : t \in RunAlone(SubSeq(fs, 1, Len(fs) - 1)) }

\* C13: two interleaved process_video sessions never share tracker state:
\* after each step of a session the tracker it sees (tracks, ids, next_id) is
\* one it would have had running alone on its own frames.
C13_SessionsIsolated ==
    \A s \in Sessions :
        (sessions.last = s /\ sessions.of[s].running)
            => tracker \in RunAlone(sessions.of[s].frames)

\* the service tracker that carries the id
svc_tracker_of(id) ==
    service.tracker.trackers[
        CHOOSE i \in 1..Len(service.tracker.trackers) :
            service.tracker.trackers[i].id = id ]

\* C14: every track the service's update() reports for a frame is Confirmed
\* in that frame: it has at least min_hits matches and was seen (matched to a
\* detection) in that same frame; coasting tracks are not reported.
C14_ServiceReportsOnlyConfirmed ==
    \A k \in 1..Len(service.tracked) :
        /\ svc_tracker_of(service.tracked[k][1]).total_visible_count >= min_hits
        /\ svc_tracker_of(service.tracked[k][1]).consecutive_invisible_count = 0

RECURSIVE RatSum(_)
\* the sum of a sequence of fractions
RatSum(ws) == IF ws = << >> THEN << 0, 1 >> ELSE RatAdd(Head(ws), RatSum(Tail(ws)))

\* C15: for every num_modes >= 1 and every position/velocity history, short
\* ones included, the confidence weights returned by the service predictor's
\* predict() sum to 1.
C15_WeightsSumToOne ==
    prediction.call = "service.predict"
        => RatSum(prediction.result.confs)[1] = RatSum(prediction.result.confs)[2]

\* C15 witness: the service predictor configured with two modes has returned
\* the fixed three weights for a history long enough to predict from.
C15_Witness ==
    /\ prediction.call = "service.predict"
    /\ prediction.num_modes = 2
    /\ Len(prediction.history) >= 2
    /\ Len(prediction.result.confs) = 3

\* the predicted points of a result, whatever predictor returned it
PredictedPoints ==
    IF prediction.call = "service.predict"
    THEN UNION { { prediction.result.trajs[m][i] :
                     i \in 1..Len(prediction.result.trajs[m]) } :
                 m \in 1..Len(prediction.result.trajs) }
    ELSE IF prediction.call = "core.predict_multimodal"
    THEN UNION { { prediction.result[m][i] : i \in 1..Len(prediction.result[m]) } :
                 m \in 1..Len(prediction.result) }
    ELSE { prediction.result[i] : i \in 1..Len(prediction.result) }

\* C16: for a history of fewer than 3 points every predictor returns an empty
\* prediction: core predict() and predict_multimodal() return no path, the
\* service's predict() returns no predicted point.
C16_ShortHistoryNoPrediction ==
    (prediction.call # "none" /\ Len(prediction.history) < 3)
        => /\ PredictedPoints = {}
           /\ prediction.call # "service.predict" => prediction.result = << >>

\* C21: on the greedy fallback path a detection is matched to its
\* best-overlapping track whenever that IoU is >= iou_threshold, equality
\* included: a frame with one detection that overlaps some active track with
\* IoU >= iou_threshold creates no track.
C21_GreedyAcceptsAtThreshold ==
    [][ ( /\ IsFrameStep
          /\ ~SCIPY_AVAILABLE
          /\ Len(fed) = 1
          /\ \E id \in DOMAIN tracker.tracks :
                /\ tracker.tracks[id].time_since_update < max_age
                /\ RatGeq(_iou(fed[1].bbox, last_bbox(tracker.tracks[id])),
                          iou_threshold) )
        => DOMAIN tracker'.tracks \subseteq DOMAIN tracker.tracks ]_vars

\* C24: a track's age is the number of frames processed since the frame that
\* created it, matched or not: every frame adds 1 to the age of every track
\* that was live before it and is live after it.
C24_AgeCountsFrames ==
    [][ IsFrameStep =>
          \A id \in Surviving :
              tracker'.tracks[id].age = tracker.tracks[id].age + 1 ]_vars

\* the ids of the tracks a step created
NewIds == DOMAIN tracker'.tracks \ DOMAIN tracker.tracks

RECURSIVE AppendedTo(_)
\* the number of detections a step appended to the surviving tracks in S
AppendedTo(S) ==
    IF S = {} THEN 0
    ELSE LET id == CHOOSE x \in S : TRUE
         IN  Len(tracker'.tracks[id].detections) - Len(tracker.tracks[id].detections)
               + AppendedTo(S \ {id})

\* C22: every detection left unmatched in a frame creates exactly one track:
\* the new ids are next_id, next_id + 1, ... in order, one per unmatched
\* detection; each new track holds that single detection (hits 1, trajectory
\* [center], time_since_update 0) and its filter state is (cx, cy, 0, 0, 0, 0).
C22_NewTrackPerUnmatchedDetection ==
    [][ IsFrameStep =>
          /\ NewIds = tracker.next_id .. (tracker'.next_id - 1)
          /\ Cardinality(NewIds) = Len(fed) - AppendedTo(Surviving)
          /\ \A id \in NewIds :
                /\ tracker'.tracks[id].track_id = id
                /\ Len(tracker'.tracks[id].detections) = 1
                /\ \E i \in 1..Len(fed) : tracker'.tracks[id].detections[1] = fed[i]
                /\ tracker'.tracks[id].hits = 1
                /\ tracker'.tracks[id].trajectory
                     = << center(tracker'.tracks[id].detections[1]) >>
                /\ tracker'.tracks[id].time_since_update = 0
                /\ tracker'.kalman_filters[id]
                     = [ x0 |-> << center(tracker'.tracks[id].detections[1])[1],
                                   center(tracker'.tracks[id].detections[1])[2],
                                   0, 0, 0, 0 >>,
                         log |-> << >> ] ]_vars

\* C22 witness: the second frame had two detections; one was matched to
\* track 1, the other was left unmatched and became track 2.
C22_Witness ==
    /\ Len(frames) = 2
    /\ Len(frames[2]) = 2
    /\ DOMAIN tracker.tracks = {1, 2}
    /\ tracker.tracks[1].hits = 2
    /\ tracker.tracks[2].hits = 1
    /\ tracker.kalman_filters[2].log = << >>
    /\ tracker.next_id = 3

\* C23: a frame without detections creates no track and changes no track's
\* hits, detections, trajectory or id, and adds exactly 1 to every live
\* track's time_since_update; a frame fed to a tracker without live tracks
\* spawns one track per detection, so the live set has len(detections) tracks.
C23_DegenerateFrames ==
    [][ IsFrameStep =>
          /\ fed = << >> =>
                /\ DOMAIN tracker'.tracks = DOMAIN tracker.tracks
                /\ tracker'.next_id = tracker.next_id
                /\ \A id \in DOMAIN tracker.tracks :
                      tracker'.tracks[id]
                        = [ tracker.tracks[id] EXCEPT !.time_since_update = @ + 1 ]
          /\ DOMAIN tracker.tracks = {} =>
                /\ Cardinality(DOMAIN tracker'.tracks) = Len(fed)
                /\ \A i \in 1..Len(fed) :
                      /\ (tracker.next_id + i - 1) \in DOMAIN tracker'.tracks
                      /\ tracker'.tracks[tracker.next_id + i - 1].detections
                           = << fed[i] >> ]_vars

\* C23 witness: a frame of two detections met an empty live set (two tracks),
\* and the empty frame after it aged both tracks.
C23_Witness ==
    /\ Len(frames) = 2
    /\ Len(frames[1]) = 2
    /\ frames[2] = << >>
    /\ DOMAIN tracker.tracks = {1, 2}
    /\ \A id \in {1, 2} : /\ tracker.tracks[id].time_since_update = 1
                          /\ tracker.tracks[id].hits = 1

RECURSIVE StripUpdates(_)
\* a filter log without its trailing update() entries
StripUpdates(log) ==
    IF log # << >> /\ log[Len(log)].op = "update"
    THEN StripUpdates(SubSeq(log, 1, Len(log) - 1))
    ELSE log

RECURSIVE MatchStreak(_)
\* the number of most recent consecutive frames in which the track of a filter
\* log received a detection; each frame is one predict() followed by the
\* update() calls of its matches, and the creating frame (before the first
\* predict) counts as a match
MatchStreak(log) ==
    IF log = << >> THEN 1
    ELSE IF log[Len(log)].op = "predict" THEN 0
    ELSE 1 + MatchStreak(SubSeq(StripUpdates(log), 1, Len(StripUpdates(log)) - 1))

\* C25: a track reported by get_confirmed_tracks() was matched in each of its
\* most recent min_hits frames (min_hits consecutive matches).
C25_ConfirmedByConsecutiveMatches ==
    \A id \in get_confirmed_tracks(tracker) :
        MatchStreak(tracker.kalman_filters[id].log) >= min_hits

\* the rotation, in degrees, of mode m of a predict_multimodal result
ModeAngle(m) == prediction.result[m][1].angle_offset

\* C26: for n_modes >= 2, predict_multimodal returns n_modes paths of which
\* each additional one is the primary path rotated by a non-zero angle, and
\* no two modes have the same rotation (so none coincide for a moving track).
C26_ModesAreDistinctRotations ==
    ( /\ prediction.call = "core.predict_multimodal"
      /\ prediction.num_modes >= 2
      /\ prediction.result # << >> )
    => /\ Len(prediction.result) = prediction.num_modes
       /\ \A m \in 2..Len(prediction.result) : ModeAngle(m) % 360 # 0
       /\ \A m, n \in 1..Len(prediction.result) :
             m # n => ModeAngle(m) % 360 # ModeAngle(n) % 360

RECURSIVE MissStreak(_)
\* the number of most recent consecutive frames in which the track of a filter
\* log received no detection: the trailing predict() entries
MissStreak(log) ==
    IF log = << >> \/ log[Len(log)].op # "predict" THEN 0
    ELSE 1 + MissStreak(SubSeq(log, 1, Len(log) - 1))

\* C27: a track that received no match in max_age + 1 consecutive frames,
\* whatever those frames carried, is no longer in the live set after them.
C27_UnmatchedTrackEvicted ==
    \A id \in DOMAIN tracker.tracks :
        id \in DOMAIN tracker.kalman_filters
            => MissStreak(tracker.kalman_filters[id].log) <= max_age

\* detection det overlaps the last box of live track id
Overlaps(det, id) == _iou(det.bbox, last_bbox(tracker.tracks[id]))[1] > 0

\* a frame without contention: no two of its detections overlap the same
\* track, none overlaps two tracks, and no IoU equals iou_threshold
NoContention(detections) ==
    /\ \A id \in DOMAIN tracker.tracks :
          \A i, j \in 1..Len(detections) :
              (Overlaps(detections[i], id) /\ Overlaps(detections[j], id)) => i = j
    /\ \A i \in 1..Len(detections) :
          \A a, b \in DOMAIN tracker.tracks :
              (Overlaps(detections[i], a) /\ Overlaps(detections[i], b)) => a = b
    /\ \A i \in 1..Len(detections) :
          \A id \in DOMAIN tracker.tracks :
              LET iou == _iou(detections[i].bbox, last_bbox(tracker.tracks[id]))
              IN  ~ (RatGeq(iou, iou_threshold) /\ RatGeq(iou_threshold, iou))

\* C28: for a frame without contention the greedy path and the
\* optimal-assignment path leave the same tracker state: whichever path the
\* frame took, its result is the result of the other path as well.
C28_PathsAgreeWithoutContention ==
    [][ ( /\ IsFrameStep
          /\ fed # << >>
          /\ active_tracks(tracker) # << >>
          /\ NoContention(fed) )
        => LET self == begin_update(tracker)
               ids == active_tracks(self)
               cost == cost_matrix(_compute_iou_matrix(self, fed, ids))
           IN  /\ tracker' = update_greedy(self, fed)
               /\ \A A \in linear_sum_assignment(cost, Len(fed), Len(ids)) :
                     tracker' = update_hungarian(self, fed, A) ]_vars

\* the detections a step appended to the history of track id of the new state
Appended(id) ==
    IF id \in DOMAIN tracker.tracks
    THEN SubSeq(tracker'.tracks[id].detections,
                Len(tracker.tracks[id].detections) + 1,
                Len(tracker'.tracks[id].detections))
    ELSE tracker'.tracks[id].detections

\* how often d occurs in a sequence
Occurrences(seq, d) == Cardinality({ k \in 1..Len(seq) : seq[k] = d })

RECURSIVE AppendedCount(_, _)
\* how often a step appended d to the histories of the tracks in S
AppendedCount(S, d) ==
    IF S = {} THEN 0
    ELSE LET id == CHOOSE x \in S : TRUE
         IN  Occurrences(Appended(id), d) + AppendedCount(S \ {id}, d)

\* C29: in every update(), on every path, each detection of the frame is
\* appended to the history of exactly one track (the one it was matched to or
\* the one created for it): histories only grow at the end, and what was
\* appended over all tracks is the frame's detections, each as often as it
\* occurs in the frame.
C29_EachDetectionInOneTrack ==
    [][ IsFrameStep =>
          /\ \A id \in Surviving :
                SubSeq(tracker'.tracks[id].detections, 1,
                       Len(tracker.tracks[id].detections))
                  = tracker.tracks[id].detections
          /\ \A d \in Detections :
                AppendedCount(DOMAIN tracker'.tracks, d) = Occurrences(fed, d) ]_vars

\* C29 witness: a frame with two different detections met two tracks; one
\* detection was appended to track 1 and the other became track 3.
C29_Witness ==
    /\ Len(frames) = 2
    /\ frames[1] = << D0, D16 >>
    /\ frames[2] = << D9, D0 >>
    /\ DOMAIN tracker.tracks = {1, 2, 3}
    /\ tracker.tracks[1].detections = << D0, D0 >>
    /\ tracker.tracks[2].detections = << D16 >>
    /\ tracker.tracks[3].detections = << D9 >>

\* C30: in every state reached by update() and reset() calls the key set of
\* kalman_filters is the key set of tracks.
C30_FilterPerTrack ==
    DOMAIN tracker.kalman_filters = DOMAIN tracker.tracks

\* C30 witness: update() has evicted a track together with its filter while
\* another track and its filter stay.
C30_Witness ==
    /\ last_call = "process_frame"
    /\ DOMAIN tracker.tracks # {}
    /\ \E k \in 1..Len(tracker.issued) :
          /\ tracker.issued[k] \notin DOMAIN tracker.tracks
          /\ tracker.issued[k] \notin DOMAIN tracker.kalman_filters

====
